---------------------------- MODULE Spec2Model ----------------------------
(***************************************************************************)
(* The n^2-1 puzzle notebook (n-puzzle.ipynb): the board primitives, the   *)
(* heuristics, the scramble loop of the driver cell, A_star and            *)
(* beam_search.                                                            *)
(*                                                                         *)
(* A board is the list of its rows, a position is <<x, y>> (row, column,   *)
(* 0-based) and 0 is the blank.  The heap of heapq is kept as a list       *)
(* sorted by Python's tuple order: heappop returns the least entry, and    *)
(* that is all the program observes of the heap.                           *)
(***************************************************************************)
EXTENDS Integers, Sequences, FiniteSets, TLC

VARIABLES
    PUZZLE_DIM,        \* the global PUZZLE_DIM the notebook is run with
    RANDOMIZE_STEPS,   \* the global RANDOMIZE_STEPS the notebook is run with
    seed,              \* the board the driver starts from, kept for reference
    initial_state,     \* the driver's board: scrambled, then given to A_star
    step,              \* iterations of the scramble loop done so far
    pc,                \* "randomize", "A_star", "done", "beam_search",
                       \* "beam_done", "error" or "moved"
    open_list,         \* A_star: the heap
    closed_set,        \* A_star: byte keys of the boards discovered
    pops,              \* A_star: heappop calls made so far
    solution_path,     \* the driver's result: None or Some(path), then Some(board)
    quality,           \* the driver's result
    cost,              \* the driver's result
    beam_size,         \* beam_search: its parameter
    beam_state,        \* beam_search: its variable "state"
    priority_queue,    \* beam_search: the heap
    visited,           \* beam_search: the boards popped
    total_nodes_evaluated,  \* beam_search: the heappush calls of the loop
    beam_pops,         \* beam_search: heappop calls made so far
    caller_move,       \* the move of a call of do_action made by a caller
                       \* other than the program's loops, None before it
    caller_result      \* the board that call returned, None before it

\* the variables of A_star
a_star_vars == <<open_list, closed_set, pops>>

\* the variables of beam_search
beam_vars == <<beam_size, beam_state, priority_queue, visited,
               total_nodes_evaluated, beam_pops>>

\* the variables of a caller's own call of do_action
caller_vars == <<caller_move, caller_result>>

vars == <<PUZZLE_DIM, RANDOMIZE_STEPS, seed, initial_state, step, pc,
          open_list, closed_set, pops, solution_path, quality, cost,
          beam_size, beam_state, priority_queue, visited,
          total_nodes_evaluated, beam_pops, caller_move, caller_result>>

---------------------------------------------------------------------------
(* Bounds of the model. *)

\* the largest RANDOMIZE_STEPS a run is configured with
MaxSteps == 6

\* the largest beam_size beam_search is called with
MaxBeam == 2

\* the iterations followed of a run of beam_search that is not followed to its end
MaxPops == 3

\* the largest RANDOMIZE_STEPS of a run in which beam_search is followed
MaxBeamSteps == 2

\* the dimensions a run is configured with
Dims == {1, 2, 3}

\* bytes of one array element (numpy's default integer, read back with dtype=int)
ItemSize == 8

---------------------------------------------------------------------------
(* Python values. *)

None == {}
Some(v) == {v}

Abs(n) == IF n < 0 THEN -n ELSE n

Pos == (0 .. PUZZLE_DIM - 1) \X (0 .. PUZZLE_DIM - 1)

\* state[x, y] of a two-dimensional array, kept as the list of its rows
at(state, p) == state[p[1] + 1][p[2] + 1]

\* the rows x .. PUZZLE_DIM - 1 of list.reshape((PUZZLE_DIM, PUZZLE_DIM))
RECURSIVE rows_from(_, _)
rows_from(list, x) ==
    IF x >= PUZZLE_DIM THEN <<>>
    ELSE <<SubSeq(list, x * PUZZLE_DIM + 1, x * PUZZLE_DIM + PUZZLE_DIM)>>
         \o rows_from(list, x + 1)

\* list.reshape((PUZZLE_DIM, PUZZLE_DIM))
reshape(list) == rows_from(list, 0)

\* the elements of an array in row-major order
RECURSIVE flatten(_)
flatten(state) == IF state = <<>> THEN <<>> ELSE Head(state) \o flatten(Tail(state))

\* [i for i in range(1, PUZZLE_DIM**2)] + [0], reshaped
goal == reshape([i \in 1 .. PUZZLE_DIM * PUZZLE_DIM |->
                    IF i < PUZZLE_DIM * PUZZLE_DIM THEN i ELSE 0])

\* The n low bytes of a non-negative integer, little-endian.
RECURSIVE int_bytes(_, _)
int_bytes(v, n) == IF n = 0 THEN <<>> ELSE <<v % 256>> \o int_bytes(v \div 256, n - 1)

\* the bytes of a list of integers, ItemSize bytes each
RECURSIVE list_bytes(_)
list_bytes(list) ==
    IF list = <<>> THEN <<>>
    ELSE int_bytes(Head(list), ItemSize) \o list_bytes(Tail(list))

\* ndarray.tobytes(): the elements in row-major order, ItemSize bytes each.
tobytes(state) == list_bytes(flatten(state))

\* The integer a list of bytes holds, little-endian.
RECURSIVE bytes_int(_)
bytes_int(bytes) ==
    IF bytes = <<>> THEN 0 ELSE Head(bytes) + 256 * bytes_int(Tail(bytes))

\* the integers a buffer holds, ItemSize bytes each
RECURSIVE bytes_list(_)
bytes_list(bytes) ==
    IF bytes = <<>> THEN <<>>
    ELSE <<bytes_int(SubSeq(bytes, 1, ItemSize))>>
         \o bytes_list(SubSeq(bytes, ItemSize + 1, Len(bytes)))

\* np.frombuffer(bytes, dtype=int).reshape(initial_state.shape)
frombuffer(bytes) == reshape(bytes_list(bytes))

\* Lexicographic order of two sequences of integers (bytes, lists, tuples).
LexLess(a, b) ==
    LET n == IF Len(a) < Len(b) THEN Len(a) ELSE Len(b)
        diff == {i \in 1 .. n : a[i] # b[i]}
    IN IF diff = {}
       THEN Len(a) < Len(b)
       ELSE LET first == CHOOSE i \in diff : \A j \in diff : i <= j
            IN a[first] < b[first]

\* Action(pos1, pos2)
action(pos1, pos2) == [pos1 |-> pos1, pos2 |-> pos2]

\* A path as the integers Python compares, in order, when it compares two paths.
RECURSIVE FlatPath(_)
FlatPath(path) ==
    IF path = <<>> THEN <<>>
    ELSE LET a == Head(path)
         IN <<a.pos1[1], a.pos1[2], a.pos2[1], a.pos2[2]>> \o FlatPath(Tail(path))

\* Python's order of two heap entries (priority, bytes, path).
EntryLess(e1, e2) ==
    \/ e1[1] < e2[1]
    \/ /\ e1[1] = e2[1]
       /\ \/ LexLess(e1[2], e2[2])
          \/ /\ e1[2] = e2[2]
             /\ LexLess(FlatPath(e1[3]), FlatPath(e2[3]))

\* heappush on the sorted list: the entry goes before the first greater entry.
heappush(heap, entry) ==
    LET n == Cardinality({i \in 1 .. Len(heap) : ~ EntryLess(entry, heap[i])})
    IN SubSeq(heap, 1, n) \o <<entry>> \o SubSeq(heap, n + 1, Len(heap))

---------------------------------------------------------------------------
(* Board primitives. *)

\* available_actions with the left-edge test off by one
available_actions_y1(state) ==
    LET b == CHOOSE p \in Pos : at(state, p) = 0
        x == b[1]
        y == b[2]
    IN (IF x > 0 THEN <<action(<<x, y>>, <<x - 1, y>>)>> ELSE <<>>)
       \o (IF x < PUZZLE_DIM - 1 THEN <<action(<<x, y>>, <<x + 1, y>>)>> ELSE <<>>)
       \o (IF y > 1 THEN <<action(<<x, y>>, <<x, y - 1>>)>> ELSE <<>>)
       \o (IF y < PUZZLE_DIM - 1 THEN <<action(<<x, y>>, <<x, y + 1>>)>> ELSE <<>>)

available_actions(state) ==
    LET b == CHOOSE p \in Pos : at(state, p) = 0
        x == b[1]
        y == b[2]
    IN (IF x > 0 THEN <<action(<<x, y>>, <<x - 1, y>>)>> ELSE <<>>)
       \o (IF x < PUZZLE_DIM - 1 THEN <<action(<<x, y>>, <<x + 1, y>>)>> ELSE <<>>)
       \o (IF y > 0 THEN <<action(<<x, y>>, <<x, y - 1>>)>> ELSE <<>>)
       \o (IF y < PUZZLE_DIM - 1 THEN <<action(<<x, y>>, <<x, y + 1>>)>> ELSE <<>>)

\* do_action with the two assignments made one after the other
do_action_seq(state, a) ==
    [state EXCEPT ![a.pos1[1] + 1][a.pos1[2] + 1] = at(state, a.pos2),
                  ![a.pos2[1] + 1][a.pos2[2] + 1] = at(state, a.pos2)]

do_action(state, a) ==
    [state EXCEPT ![a.pos1[1] + 1][a.pos1[2] + 1] = at(state, a.pos2),
                  ![a.pos2[1] + 1][a.pos2[2] + 1] = at(state, a.pos1)]

\* is_goal with a goal that has no blank: [i for i in range(1, PUZZLE_DIM**2 + 1)]
is_goal_noblank(state) ==
    state = reshape([i \in 1 .. PUZZLE_DIM * PUZZLE_DIM |-> i])

is_goal(state) == state = goal

\* np.sum(state != goal)
difference_from_goal(state) ==
    Cardinality({p \in Pos : at(state, p) # at(goal, p)})

---------------------------------------------------------------------------
(* Heuristics. *)

goal_positions == [i \in 1 .. PUZZLE_DIM * PUZZLE_DIM - 1 |->
                      <<i \div PUZZLE_DIM, i % PUZZLE_DIM>>]

\* the loop of manhattan_distance over cells i .. PUZZLE_DIM^2 - 1, row-major
RECURSIVE manhattan_from(_, _)
manhattan_from(state, i) ==
    IF i >= PUZZLE_DIM * PUZZLE_DIM THEN 0
    ELSE LET p == <<i \div PUZZLE_DIM, i % PUZZLE_DIM>>
             value == at(state, p)
         IN (IF value # 0
             THEN Abs(p[1] - goal_positions[value][1])
                  + Abs(p[2] - goal_positions[value][2])
             ELSE 0)
            + manhattan_from(state, i + 1)

manhattan_distance(state) == manhattan_from(state, 0)

\* sum((x > y) for j, x in enumerate(line) for y in line[j + 1:])
inversions(line) ==
    Cardinality({jk \in (1 .. Len(line)) \X (1 .. Len(line)) :
                    jk[1] < jk[2] /\ line[jk[1]] > line[jk[2]]})

\* the loop of linear_conflict over i .. PUZZLE_DIM - 1
RECURSIVE conflict_from(_, _)
conflict_from(state, i) ==
    IF i >= PUZZLE_DIM THEN 0
    ELSE LET row == state[i + 1]
             col == [j \in 1 .. PUZZLE_DIM |-> state[j][i + 1]]
         IN inversions(row) + inversions(col) + conflict_from(state, i + 1)

linear_conflict(state) == conflict_from(state, 0)

---------------------------------------------------------------------------
(* A_star. *)

\* next_path with the action put in front
next_path_front(path, a) == <<a>> \o path

\* next_path that forgets the action
next_path_same(path, a) == path

\* next_path = path + [action]
next_path(path, a) == Append(path, a)

\* priority = manhattan_distance(next_state) + 2*linear_conflict(next_state) + len(next_path)
priority(next_state, path) ==
    manhattan_distance(next_state) + 2 * linear_conflict(next_state) + Len(path)

\* the membership test inverted
unvisited_inverted(next_state_bytes, closed) == next_state_bytes \in closed

\* the membership test left out
unvisited_always(next_state_bytes, closed) == next_state_bytes \notin {}

\* "if next_state_bytes not in closed_set"
unvisited(next_state_bytes, closed) == next_state_bytes \notin closed

\* the for loop over available_actions(current_state): the heap and the
\* closed set after the remaining actions have been processed
RECURSIVE expand(_, _, _, _, _)
expand(actions, current_state, path, heap, closed) ==
    IF actions = <<>> THEN <<heap, closed>>
    ELSE LET next_state == do_action(current_state, Head(actions))
             next_state_bytes == tobytes(next_state)
             np == next_path(path, Head(actions))
         IN IF unvisited(next_state_bytes, closed)
            THEN expand(Tail(actions), current_state, path,
                        heappush(heap, <<priority(next_state, np), next_state_bytes, np>>),
                        closed \cup {next_state_bytes})
            ELSE expand(Tail(actions), current_state, path, heap, closed)

---------------------------------------------------------------------------
(* The driver cell and the state machine. *)

\* a board of the other parity class: the solved board with tiles 1 and 2 exchanged
swapped_goal == [goal EXCEPT ![1][1] = goal[1][2], ![1][2] = goal[1][1]]

\* The boards a run starts from: the solved board, as in the driver cell, and,
\* for the 2 x 2 puzzle, a caller's board from which the goal cannot be reached.
Seeds(dim) == IF dim = 2 THEN {"goal", "swapped"} ELSE {"goal"}

Init ==
    /\ PUZZLE_DIM \in Dims
    /\ RANDOMIZE_STEPS \in 0 .. MaxSteps
    /\ seed \in Seeds(PUZZLE_DIM)
    /\ initial_state = IF seed = "goal" THEN goal ELSE swapped_goal
    /\ step = 0
    /\ pc = "randomize"
    /\ open_list = <<>>
    /\ closed_set = {}
    /\ pops = 0
    /\ solution_path = None
    /\ quality = 0
    /\ cost = 0
    /\ caller_move = None
    /\ caller_result = None
    /\ beam_size = 0
    /\ beam_state = initial_state
    /\ priority_queue = <<>>
    /\ visited = {}
    /\ total_nodes_evaluated = 0
    /\ beam_pops = 0

\* one iteration of the scramble loop, with one outcome of choice()
Randomize ==
    /\ pc = "randomize"
    /\ step < RANDOMIZE_STEPS
    /\ \E i \in 1 .. Len(available_actions(initial_state)) :
          initial_state' = do_action(initial_state, available_actions(initial_state)[i])
    /\ step' = step + 1
    /\ UNCHANGED <<caller_vars, PUZZLE_DIM, RANDOMIZE_STEPS, seed, pc, open_list, closed_set,
                   pops, solution_path, quality, cost,
                   beam_vars>>

\* choice() of an empty list raises IndexError
RandomizeFails ==
    /\ pc = "randomize"
    /\ step < RANDOMIZE_STEPS
    /\ available_actions(initial_state) = <<>>
    /\ pc' = "error"
    /\ UNCHANGED <<caller_vars, PUZZLE_DIM, RANDOMIZE_STEPS, seed, initial_state, step,
                   open_list, closed_set, pops, solution_path, quality, cost,
                   beam_vars>>

\* A_star(initial_state) up to the while loop
A_starCall ==
    /\ pc = "randomize"
    /\ step = RANDOMIZE_STEPS
    /\ open_list' = heappush(<<>>, <<manhattan_distance(initial_state),
                                      tobytes(initial_state), <<>>>>)
    /\ closed_set' = {tobytes(initial_state)}
    /\ pops' = 0
    /\ pc' = "A_star"
    /\ UNCHANGED <<caller_vars, PUZZLE_DIM, RANDOMIZE_STEPS, seed, initial_state, step,
                   solution_path, quality, cost,
                   beam_vars>>

\* an iteration of the while loop that pops the goal and returns
A_starGoal ==
    /\ pc = "A_star"
    /\ open_list # <<>>
    /\ LET path == Head(open_list)[3]
           current_state == frombuffer(Head(open_list)[2])
       IN /\ is_goal(current_state)
          /\ open_list' = Tail(open_list)
          /\ solution_path' = Some(path)
          /\ quality' = Len(path)
          /\ cost' = Cardinality(closed_set)
    /\ pops' = pops + 1
    /\ pc' = "done"
    /\ UNCHANGED <<caller_vars, PUZZLE_DIM, RANDOMIZE_STEPS, seed, initial_state, step, closed_set,
                   beam_vars>>

\* an iteration of the while loop that pops a board other than the goal
A_starExpand ==
    /\ pc = "A_star"
    /\ open_list # <<>>
    /\ LET path == Head(open_list)[3]
           current_state == frombuffer(Head(open_list)[2])
           r == expand(available_actions(current_state), current_state, path,
                       Tail(open_list), closed_set)
       IN /\ ~ is_goal(current_state)
          /\ open_list' = r[1]
          /\ closed_set' = r[2]
    /\ pops' = pops + 1
    /\ UNCHANGED <<caller_vars, PUZZLE_DIM, RANDOMIZE_STEPS, seed, initial_state, step, pc,
                   solution_path, quality, cost,
                   beam_vars>>

\* the while loop ends with the heap empty: return None, -1, len(closed_set)
A_starFail ==
    /\ pc = "A_star"
    /\ open_list = <<>>
    /\ solution_path' = None
    /\ quality' = -1
    /\ cost' = Cardinality(closed_set)
    /\ pc' = "done"
    /\ UNCHANGED <<caller_vars, PUZZLE_DIM, RANDOMIZE_STEPS, seed, initial_state, step,
                   open_list, closed_set, pops,
                   beam_vars>>

---------------------------------------------------------------------------
(* The priorities of beam_search.                                          *)
(*                                                                         *)
(* The first priority is an integer, the others are the double             *)
(* 0.8 * difference_from_goal + 0.2 * manhattan_distance.  A priority is   *)
(* kept exactly, as <<n, r>> for the number n/5 + r*u with                 *)
(* u = 1/(5 * 2^55): n/5 is the value in real arithmetic and r the         *)
(* rounding error.  The double 0.8 is 4/5 + 8u and the double 0.2 is       *)
(* 1/5 + 2u.  The values stay below 32, so r stays far below 2^55/2 and    *)
(* the order of the numbers is the order of the pairs.                     *)

RECURSIVE Pow2(_)
Pow2(k) == IF k = 0 THEN 1 ELSE 2 * Pow2(k - 1)

\* 2^j modulo 5
Pow2Mod5(j) == <<1, 2, 4, 3>>[(j % 4) + 1]

\* The rounding error of the double nearest to n/5 + r*u (ties to even),
\* for 0 <= n < 160.  Doubles in [2^(k-3), 2^(k-2)) are the multiples of
\* G*u with G = 5 * 2^k.
round_double(n, r) ==
    IF n = 0 THEN 0
    ELSE LET k0 == CHOOSE k \in 0 .. 7 :
                      5 * Pow2(k) <= 8 * n /\ 8 * n < 5 * Pow2(k + 1)
             k == IF 5 * Pow2(k0) = 8 * n /\ r < 0 THEN k0 - 1 ELSE k0
             G == 5 * Pow2(k)
             \* (n * 2^55 + r) modulo G and modulo 2G
             R == (Pow2(k) * ((n * Pow2Mod5(55 - k)) % 5) + r) % G
             R2 == (Pow2(k + 1) * ((n * Pow2Mod5(54 - k)) % 5) + r) % (2 * G)
             odd == R2 >= G
         IN IF 2 * R < G \/ (2 * R = G /\ ~ odd) THEN r - R ELSE r - R + G

\* an integer priority
int_priority(d) == <<5 * d, 0>>

\* 0.8 * d + 0.2 * m in double arithmetic
float_priority(d, m) ==
    <<4 * d + m,
      round_double(4 * d + m, round_double(4 * d, 8 * d) + round_double(m, 2 * m))>>

\* the order of two priorities
PriorityLess(p1, p2) == p1[1] < p2[1] \/ (p1[1] = p2[1] /\ p1[2] < p2[2])

---------------------------------------------------------------------------
(* beam_search. *)

\* tuple(map(tuple, state)) and np.array(state_tuple): an array and the tuple
\* of its rows are both kept as the list of the rows
RECURSIVE state_tuple_of(_)
state_tuple_of(state) ==
    IF state = <<>> THEN <<>> ELSE <<Head(state)>> \o state_tuple_of(Tail(state))

\* Python's order of two heap entries (priority, state_tuple).
BeamEntryLess(e1, e2) ==
    \/ PriorityLess(e1[1], e2[1])
    \/ /\ e1[1] = e2[1]
       /\ LexLess(flatten(e1[2]), flatten(e2[2]))

\* heappush on the sorted list of beam_search
beam_heappush(heap, entry) ==
    LET n == Cardinality({i \in 1 .. Len(heap) : ~ BeamEntryLess(entry, heap[i])})
    IN SubSeq(heap, 1, n) \o <<entry>> \o SubSeq(heap, n + 1, Len(heap))

\* priority = 0.8 * difference_from_goal(new_state) + 0.2 * manhattan_distance(new_state)
beam_priority(new_state) ==
    float_priority(difference_from_goal(new_state), manhattan_distance(new_state))

\* not_visited, were every board taken as new
not_visited_always(new_state_tuple, seen) == new_state_tuple \notin {}

\* "if new_state_tuple not in visited"
not_visited(new_state_tuple, seen) == new_state_tuple \notin seen

\* what a round of the for loop makes of each move of available_actions(state):
\* new_state = do_action(state, move), its tuple and its priority, as the
\* heap entry (priority, new_state_tuple)
RECURSIVE round_entries(_, _)
round_entries(state, actions) ==
    IF actions = <<>> THEN <<>>
    ELSE LET new_state == do_action(state, Head(actions))
         IN <<<<beam_priority(new_state), state_tuple_of(new_state)>>>>
            \o round_entries(state, Tail(actions))

\* the for loop over range(beam_size), choices being the outcomes of choice()
\* and entries the heap entry of each move: the heap and
\* total_nodes_evaluated after the remaining rounds
RECURSIVE beam_rounds(_, _, _, _, _)
beam_rounds(choices, entries, seen, heap, total) ==
    IF choices = <<>> THEN <<heap, total>>
    ELSE LET entry == entries[Head(choices)]
         IN IF not_visited(entry[2], seen)
            THEN beam_rounds(Tail(choices), entries, seen,
                             beam_heappush(heap, entry), total + 1)
            ELSE beam_rounds(Tail(choices), entries, seen, heap, total)

\* the model follows a run of beam_search to its end when the board is at
\* most 2 x 2 and the beam is 1 wide, and for MaxPops iterations otherwise
BeamCut == (PUZZLE_DIM > 2 \/ beam_size > 1) /\ beam_pops >= MaxPops

\* "return state, total_nodes_evaluated, len(visited)": what beam_search
\* returns once it has returned (pc = "beam_done").  The model ends there.
beam_result == <<beam_state, total_nodes_evaluated, Cardinality(visited)>>

\* beam_search(initial_state, beam_size) up to the while loop
BeamCall ==
    /\ pc = "done"
    /\ RANDOMIZE_STEPS <= MaxBeamSteps
    /\ beam_size' \in 1 .. MaxBeam
    /\ beam_state' = initial_state
    /\ priority_queue' = beam_heappush(<<>>,
           <<int_priority(difference_from_goal(initial_state)),
             state_tuple_of(initial_state)>>)
    /\ visited' = {}
    /\ total_nodes_evaluated' = 0
    /\ beam_pops' = 0
    /\ pc' = "beam_search"
    \* the heap and the closed set of A_star, locals of a call that has
    \* returned, are gone
    /\ open_list' = <<>>
    /\ closed_set' = {}
    /\ UNCHANGED <<caller_vars, PUZZLE_DIM, RANDOMIZE_STEPS, seed, initial_state, step,
                   pops, solution_path, quality, cost>>

\* an iteration of the while loop that pops the goal and returns
BeamGoal ==
    /\ pc = "beam_search"
    /\ ~ BeamCut
    /\ priority_queue # <<>>
    /\ ~ is_goal(beam_state)
    /\ is_goal(Head(priority_queue)[2])
    /\ beam_state' = Head(priority_queue)[2]
    /\ priority_queue' = Tail(priority_queue)
    /\ visited' = visited \cup {Head(priority_queue)[2]}
    /\ beam_pops' = beam_pops + 1
    /\ pc' = "beam_done"
    /\ UNCHANGED <<caller_vars, PUZZLE_DIM, RANDOMIZE_STEPS, seed, initial_state, step,
                   a_star_vars, solution_path, quality, cost,
                   beam_size, total_nodes_evaluated>>

\* an iteration of the while loop that pops a board other than the goal
BeamExpand ==
    /\ pc = "beam_search"
    /\ ~ BeamCut
    /\ priority_queue # <<>>
    /\ ~ is_goal(beam_state)
    /\ ~ is_goal(Head(priority_queue)[2])
    /\ available_actions(Head(priority_queue)[2]) # <<>>
    /\ beam_state' = Head(priority_queue)[2]
    /\ visited' = visited \cup {Head(priority_queue)[2]}
    /\ beam_pops' = beam_pops + 1
    /\ \E entries \in {round_entries(Head(priority_queue)[2],
                                     available_actions(Head(priority_queue)[2]))} :
          \E choices \in [1 .. beam_size -> 1 .. Len(entries)] :
             LET r == beam_rounds(choices, entries, visited',
                                  Tail(priority_queue), total_nodes_evaluated)
             IN /\ priority_queue' = r[1]
                /\ total_nodes_evaluated' = r[2]
    /\ UNCHANGED <<caller_vars, PUZZLE_DIM, RANDOMIZE_STEPS, seed, initial_state, step, pc,
                   a_star_vars, solution_path, quality, cost, beam_size>>

\* BeamExit, were the loop left whatever the heap and the board are
BeamExit_unconditional ==
    /\ pc = "beam_search"
    /\ pc' = "beam_done"
    /\ UNCHANGED <<caller_vars, PUZZLE_DIM, RANDOMIZE_STEPS, seed, initial_state, step,
                   a_star_vars, solution_path, quality, cost, beam_vars>>

\* the while loop ends, the heap being empty or the board the goal:
\* return state, total_nodes_evaluated, len(visited)
BeamExit ==
    /\ pc = "beam_search"
    /\ priority_queue = <<>> \/ is_goal(beam_state)
    /\ pc' = "beam_done"
    /\ UNCHANGED <<caller_vars, PUZZLE_DIM, RANDOMIZE_STEPS, seed, initial_state, step,
                   a_star_vars, solution_path, quality, cost, beam_vars>>

Next ==
    \/ Randomize
    \/ RandomizeFails
    \/ A_starCall
    \/ A_starGoal
    \/ A_starExpand
    \/ A_starFail
    \/ BeamCall
    \/ BeamGoal
    \/ BeamExpand
    \/ BeamExit

Spec == Init /\ [][Next]_vars

\* A caller other than the program's loops calls do_action on the board with
\* a move of its own, any two cells of the board: do_action returns a board.
CallerMove ==
    /\ pc = "randomize"
    /\ \E pos1, pos2 \in Pos :
          /\ caller_move' = Some(action(pos1, pos2))
          /\ caller_result' = Some(do_action(initial_state, action(pos1, pos2)))
    /\ pc' = "moved"
    /\ UNCHANGED <<PUZZLE_DIM, RANDOMIZE_STEPS, seed, initial_state, step,
                   a_star_vars, solution_path, quality, cost, beam_vars>>

\* the scramble loop, and at any board of it a caller's call of do_action
MoveNext ==
    \/ Randomize
    \/ RandomizeFails
    \/ CallerMove

MoveSpec == Init /\ [][MoveNext]_vars

\* A_star is running a loop iteration or leaving the loop: each iteration
\* pops an entry, and leaving the loop ends the call.  In "A_star" one of
\* A_starGoal, A_starExpand and A_starFail can always be taken, and every
\* step they take is a step of A_starRuns.
A_starRuns ==
    /\ pc = "A_star"
    /\ \/ pops' = pops + 1 /\ pc' \in {"A_star", "done"}
       \/ pops' = pops /\ pc' = "done"

\* beam_search is running a loop iteration or leaving the loop, as for
\* A_star; a run the model has stopped following takes no step.
BeamRuns ==
    /\ pc = "beam_search"
    /\ priority_queue = <<>> \/ ~ BeamCut
    /\ \/ beam_pops' = beam_pops + 1 /\ pc' \in {"beam_search", "beam_done"}
       \/ beam_pops' = beam_pops /\ pc' = "beam_done"

\* The program is sequential: while A_star or beam_search is running, it
\* takes its next step.
LiveSpec ==
    /\ Spec
    /\ WF_<<pc, pops>>(A_starRuns)
    /\ WF_<<pc, beam_pops>>(BeamRuns)

---------------------------------------------------------------------------
(* Properties. *)

\* the set of the elements of a list
Range(list) == {list[i] : i \in 1 .. Len(list)}

\* the board a path leads to from a board
RECURSIVE Replay(_, _)
Replay(state, path) ==
    IF path = <<>> THEN state ELSE Replay(do_action(state, Head(path)), Tail(path))

\* every move of a path is a legal move of the board it is applied to
RECURSIVE Legal(_, _)
Legal(state, path) ==
    \/ path = <<>>
    \/ /\ Head(path) \in Range(available_actions(state))
       /\ Legal(do_action(state, Head(path)), Tail(path))

\* the boards one legal move away from a board
Neighbours(state) == {do_action(state, a) : a \in Range(available_actions(state))}

\* the boards reachable from the boards of S by legal moves
RECURSIVE Closure(_)
Closure(S) ==
    LET T == S \cup UNION {Neighbours(b) : b \in S}
    IN IF T = S THEN S ELSE Closure(T)

Returned == pc = "done"

\* C1: A_star is optimal: on a board obtained from the goal by s legal moves
\* it returns a path, and quality <= s.
C1_Optimal ==
    (Returned /\ seed = "goal") =>
        (solution_path # None /\ quality <= RANDOMIZE_STEPS)

\* C2: the path of every heap entry leads, by legal moves, from the input
\* board to the entry's board, and a returned path leads, by legal moves,
\* from the input board to the goal.
C2_PathReplays ==
    /\ pc \in {"A_star", "done"} =>
          \A i \in 1 .. Len(open_list) :
             /\ Legal(initial_state, open_list[i][3])
             /\ Replay(initial_state, open_list[i][3]) = frombuffer(open_list[i][2])
    /\ (Returned /\ solution_path # None) =>
          \A path \in solution_path :
             /\ Legal(initial_state, path)
             /\ is_goal(Replay(initial_state, path))
             /\ quality = Len(path)

C2_Witness ==
    /\ Returned
    /\ solution_path # None
    /\ quality >= 3
    /\ PUZZLE_DIM = 3

\* C3: on a board scrambled from the goal, A_star terminates, and what it
\* returns is a path with quality >= 0, never the failure result.
C3_SolvableSucceeds ==
    /\ [](Returned /\ seed = "goal" => solution_path # None /\ quality >= 0)
    /\ (pc = "A_star" /\ seed = "goal") ~> Returned

C3_Witness ==
    /\ Returned
    /\ seed = "goal"
    /\ ~ is_goal(initial_state)
    /\ solution_path # None
    /\ quality >= 0

\* C4: on a board from which the goal cannot be reached, A_star terminates
\* with the heap empty and returns (None, -1, len(closed_set)), the closed
\* set being the set of the boards reachable from the start board.
C4_UnsolvableFails ==
    /\ [](Returned /\ seed = "swapped" =>
            /\ open_list = <<>>
            /\ solution_path = None
            /\ quality = -1
            /\ cost = Cardinality(closed_set)
            /\ closed_set = {tobytes(b) : b \in Closure({initial_state})})
    /\ (pc = "A_star" /\ seed = "swapped") ~> Returned

C4_Witness ==
    /\ Returned
    /\ seed = "swapped"
    /\ quality = -1
    /\ cost = 12

\* C5: on a board one legal move away from the goal, A_star returns
\* quality 1.
C5_OneMoveAway ==
    (Returned /\ initial_state \in Neighbours(goal)) => quality = 1

C5_Witness ==
    /\ Returned
    /\ initial_state \in Neighbours(goal)
    /\ PUZZLE_DIM = 3
    /\ quality = 1

\* C6: manhattan_distance of the goal board is 0.
C6_ManhattanGoalZero ==
    is_goal(initial_state) => manhattan_distance(initial_state) = 0

\* C7: linear_conflict of the goal board is 0.
C7_ConflictGoalZero ==
    is_goal(initial_state) => linear_conflict(initial_state) = 0

\* C8: manhattan_distance is admissible: a board reached from the goal by k
\* legal moves has manhattan_distance <= k.
C8_ManhattanAdmissible ==
    seed = "goal" => manhattan_distance(initial_state) <= step

\* C9: on a board of dimension >= 2, available_actions returns 2 moves when
\* the blank is in a corner, 3 on another edge cell, 4 inside; pos1 of each
\* is the blank's position and pos2 a cell of the board next to it.
C9_AvailableActions ==
    PUZZLE_DIM >= 2 =>
        LET acts == available_actions(initial_state)
            blank == CHOOSE p \in Pos : at(initial_state, p) = 0
            onEdge(c) == IF c = 0 \/ c = PUZZLE_DIM - 1 THEN 1 ELSE 0
        IN /\ Len(acts) = 4 - onEdge(blank[1]) - onEdge(blank[2])
           /\ Len(acts) \in 2 .. 4
           /\ \A a \in Range(acts) :
                 /\ a.pos1 = blank
                 /\ a.pos2 \in Pos
                 /\ Abs(a.pos2[1] - blank[1]) + Abs(a.pos2[2] - blank[2]) = 1

C9_Witness ==
    /\ PUZZLE_DIM = 3
    /\ at(initial_state, <<1, 1>>) = 0
    /\ Len(available_actions(initial_state)) = 4

\* C10: a move is its own inverse: applying a move of available_actions(b)
\* twice to b gives b.
C10_SelfInverse ==
    \A a \in Range(available_actions(initial_state)) :
        do_action(do_action(initial_state, a), a) = initial_state

C10_Witness ==
    /\ step >= 2
    /\ ~ is_goal(initial_state)
    /\ Len(available_actions(initial_state)) >= 2
    /\ do_action(initial_state, available_actions(initial_state)[1]) # initial_state

\* C12: with dimension 1 the only board [[0]] is the goal and has no moves,
\* and A_star on it returns the empty path with quality 0 after one heappop.
C12_DimensionOne ==
    PUZZLE_DIM = 1 =>
        /\ initial_state = <<<<0>>>>
        /\ is_goal(initial_state)
        /\ available_actions(initial_state) = <<>>
        /\ Returned =>
              /\ solution_path = Some(<<>>)
              /\ quality = 0
              /\ pops = 1

C12_Witness ==
    /\ PUZZLE_DIM = 1
    /\ Returned
    /\ pops = 1
    /\ quality = 0

\* C14: a board is closed when it is first discovered: the boards of the
\* heap entries are in the closed set, no two entries hold the same board,
\* and the heappush calls made so far (the entries popped and the entries
\* still in the heap) are as many as the boards discovered, so no board was
\* pushed twice.
C14_ClosedOnDiscovery ==
    pc \in {"A_star", "done"} =>
        /\ \A i \in 1 .. Len(open_list) : open_list[i][2] \in closed_set
        /\ \A i, j \in 1 .. Len(open_list) :
              open_list[i][2] = open_list[j][2] => i = j
        /\ pops + Len(open_list) = Cardinality(closed_set)

C14_Witness ==
    /\ pc = "A_star"
    /\ PUZZLE_DIM = 3
    /\ pops >= 3
    /\ Len(open_list) >= 3
    /\ pops + Len(open_list) = Cardinality(closed_set)


\* C15: in beam_search the visited set prevents re-expansion: the queue never
\* holds two entries for the same board, and no board is popped more than
\* once, so that the boards popped are as many as the boards visited.
C15_NoReexpansion ==
    pc \in {"beam_search", "beam_done"} =>
        /\ \A i, j \in 1 .. Len(priority_queue) :
              priority_queue[i][2] = priority_queue[j][2] => i = j
        /\ beam_pops = Cardinality(visited)

\* the queue entries of beam_search whose board is already visited
StaleEntries ==
    Cardinality({i \in 1 .. Len(priority_queue) : priority_queue[i][2] \in visited})

\* an iteration of beam_search's loop either visits a new board or removes
\* an entry of a visited board and adds none
BeamProgress ==
    (pc = "beam_search" /\ beam_pops' # beam_pops) =>
        \/ visited \subseteq visited' /\ visited' # visited
        \/ visited' = visited /\ StaleEntries' < StaleEntries

C17_BeamTerminalBoard ==
    /\ pc = "beam_done" =>
          /\ is_goal(beam_result[1]) \/ priority_queue = <<>>
          /\ is_goal(initial_state) =>
                /\ beam_result = <<initial_state, 0, 0>>
                /\ beam_pops = 0
                /\ Len(priority_queue) = 1
    /\ (pc = "beam_search" /\ priority_queue # <<>> /\ ~ is_goal(beam_state)) =>
          available_actions(Head(priority_queue)[2]) # <<>>

C17_Witness ==
    /\ pc = "beam_done"
    /\ PUZZLE_DIM = 3
    /\ step >= 2
    /\ is_goal(initial_state)
    /\ beam_result = <<goal, 0, 0>>
    /\ beam_pops = 0

\* a valid board: PUZZLE_DIM rows of PUZZLE_DIM cells whose values are all of
\* 0 .. PUZZLE_DIM^2 - 1, so each of them exactly once and exactly one blank
IsBoard(state) ==
    /\ Len(state) = PUZZLE_DIM
    /\ \A x \in 1 .. PUZZLE_DIM : Len(state[x]) = PUZZLE_DIM
    /\ {at(state, p) : p \in Pos} = 0 .. PUZZLE_DIM * PUZZLE_DIM - 1

\* the boards at most k legal moves away from the boards of S
RECURSIVE Within(_, _)
Within(S, k) ==
    IF k = 0 THEN S ELSE Within(S \cup UNION {Neighbours(b) : b \in S}, k - 1)

\* the boards of B reachable from the boards of S by legal moves that pass
\* through boards of B only
RECURSIVE ReachableFrom(_, _, _)
ReachableFrom(frontier, S, B) ==
    LET new == (B \cap UNION {Neighbours(b) : b \in frontier}) \ S
    IN IF new = {} THEN S ELSE ReachableFrom(new, S \cup new, B)

ReachableIn(S, B) == ReachableFrom(S, S, B)

\* the board the scramble loop starts from
seed_board == IF seed = "goal" THEN goal ELSE swapped_goal

\* the boards A_star holds: those of the closed set, which the boards of the
\* heap are among
A_starBoards == {frombuffer(b) : b \in closed_set}

\* the boards beam_search holds: the board popped last, those of the queue
\* and those visited
BeamBoards ==
    {beam_state} \cup visited
        \cup {priority_queue[i][2] : i \in 1 .. Len(priority_queue)}

\* C18: board validity is preserved by every operation.  The board of the
\* scramble loop is a valid board, at most step legal moves away from the
\* board the loop started from; the boards of A_star's heap and closed set
\* and the boards of beam_search's queue and visited set are valid boards,
\* each reachable from the start board of the search by legal moves.
C18_BoardsValid ==
    /\ IsBoard(initial_state)
    /\ pc \in {"randomize", "error"} => initial_state \in Within({seed_board}, step)
    /\ pc \in {"A_star", "done"} =>
          /\ \A b \in A_starBoards : IsBoard(b)
          /\ \A i \in 1 .. Len(open_list) : open_list[i][2] \in closed_set
          /\ closed_set # {} => ReachableIn({initial_state}, A_starBoards) = A_starBoards
    /\ pc \in {"beam_search", "beam_done"} =>
          /\ \A b \in BeamBoards : IsBoard(b)
          /\ ReachableIn({initial_state}, BeamBoards) = BeamBoards

C18_Witness ==
    /\ pc = "beam_search"
    /\ PUZZLE_DIM = 3
    /\ step >= 2
    /\ Cardinality(BeamBoards) >= 4
    /\ seed_board \notin BeamBoards

\* C11: do_action fails with an InvalidMoveError and produces no board when
\* the move's pos1 is not the blank's position or its pos2 is not a cell
\* orthogonally adjacent to the blank, that is, when the move is none of
\* available_actions.
C11_InvalidMoveFails ==
    pc = "moved" =>
        \A a \in caller_move :
            a \notin Range(available_actions(initial_state)) => caller_result = None

=============================================================================
